---- MODULE Spec2Model ----
(***************************************************************************)
(* Pantry inventory / recipe backend: the cache store (CacheEntry), the    *)
(* translation service (translateText) and the two recipe routes of        *)
(* backend/server.js (search by inventory, recipe details).                *)
(*                                                                         *)
(* A string is a sequence of symbols.  A symbol is one character (" ",     *)
(* ",", "|", a letter) or a fixed block of text that no operation of the   *)
(* program looks into (a prompt template, a key prefix, a language code).  *)
(* null and undefined are the one-symbol sequences Null and Undefined,     *)
(* which no real string equals.                                            *)
(***************************************************************************)
EXTENDS Integers, Sequences, FiniteSets, TLC

\* ---- bounds of the model ------------------------------------------------
MaxItems  == 2      \* longest inventory / ingredient list / result list
MaxFaults == 1      \* environment faults (provider, database) in one run
MaxTime   == 24     \* the clock stops here (hours)

\* the clock is read every 11 or 12 hours
TickSteps == {11, 12}

\* ---- program constants --------------------------------------------------
TTL == 23           \* CacheEntryModel: createdAt expires '23h'

Null      == <<"<null>">>
Undefined == <<"<undefined>">>

\* JavaScript truthiness of a value that is a string, null or undefined
Truthy(v) == v # Null /\ v # Undefined /\ v # <<>>

\* slip: no fallback to the right operand
OrElse_Left(a, b) == a

\* a || b
OrElse(a, b) == IF Truthy(a) THEN a ELSE b

\* const separador = "|||" (search route), const separator = "|||" (details)
separador == <<"|", "|", "|">>
separator == <<"|", "|", "|">>

\* ---- String.prototype / Array.prototype ---------------------------------
IsSpace(c) == c = " "

RECURSIVE TrimStart(_)
TrimStart(s) ==
    IF s # <<>> /\ IsSpace(Head(s)) THEN TrimStart(Tail(s)) ELSE s

RECURSIVE TrimEnd(_)
TrimEnd(s) ==
    IF s # <<>> /\ IsSpace(s[Len(s)]) THEN TrimEnd(SubSeq(s, 1, Len(s) - 1)) ELSE s

\* s.trim()
Trim(s) == TrimEnd(TrimStart(s))

\* does sep occur in s at position i
OccursAt(s, sep, i) ==
    /\ i + Len(sep) - 1 <= Len(s)
    /\ SubSeq(s, i, i + Len(sep) - 1) = sep

\* s.split(sep), sep non-empty: pieces between the non-overlapping
\* occurrences of sep found from the left; "" splits into [""]
RECURSIVE Split(_, _)
Split(s, sep) ==
    LET hits == {i \in 1..Len(s) : OccursAt(s, sep, i)}
    IN  IF hits = {} THEN <<s>>
        ELSE LET i == CHOOSE h \in hits : \A g \in hits : h <= g
             IN  <<SubSeq(s, 1, i - 1)>> \o Split(SubSeq(s, i + Len(sep), Len(s)), sep)

\* arr.join(sep): null and undefined elements are rendered as ""
RECURSIVE Join(_, _)
Join(arr, sep) ==
    IF arr = <<>> THEN <<>>
    ELSE LET h == IF Head(arr) \in {Null, Undefined} THEN <<>> ELSE Head(arr)
         IN  IF Len(arr) = 1 THEN h ELSE h \o sep \o Join(Tail(arr), sep)

\* arr.map(s => s.trim())
MapTrim(arr) == [i \in 1..Len(arr) |-> Trim(arr[i])]

\* UTF-16 code unit of a character
CharCode(c) ==
    CASE c = " " -> 32
      [] c = "," -> 44
      [] c = "a" -> 97
      [] c = "b" -> 98
      [] c = "c" -> 99
      [] c = "x" -> 120
      [] c = "y" -> 121
      [] c = "z" -> 122
      [] c = "|" -> 124
      [] OTHER   -> 1000

\* a < b in the default sort order of Array.prototype.sort (code units)
RECURSIVE StrLess(_, _)
StrLess(a, b) ==
    IF b = <<>> THEN FALSE
    ELSE IF a = <<>> THEN TRUE
    ELSE IF CharCode(Head(a)) # CharCode(Head(b)) THEN CharCode(Head(a)) < CharCode(Head(b))
    ELSE StrLess(Tail(a), Tail(b))

RECURSIVE SortInsert(_, _)
SortInsert(x, sorted) ==
    IF sorted = <<>> THEN <<x>>
    ELSE IF StrLess(x, Head(sorted)) THEN <<x>> \o sorted
    ELSE <<Head(sorted)>> \o SortInsert(x, Tail(sorted))

\* arr.sort() on an array of strings
RECURSIVE SortedCopy(_)
SortedCopy(arr) ==
    IF arr = <<>> THEN <<>> ELSE SortInsert(Head(arr), SortedCopy(Tail(arr)))

\* slip: the array is used in the order of the inventory
Unsorted(arr) == arr

Sort(arr) == SortedCopy(arr)

\* ---- the translation provider (Gemini) ----------------------------------
\* what the provider would answer character by character: the dictionary
\* es->en (a,b,c -> x,y,x) and en->es (x,y,z -> a,b,c)
TrChar(c) ==
    CASE c = "a" -> "x"
      [] c = "b" -> "y"
      [] c = "c" -> "x"
      [] c = "x" -> "a"
      [] c = "y" -> "b"
      [] c = "z" -> "c"
      [] OTHER   -> c

TrStr(s) == [i \in 1..Len(s) |-> TrChar(s[i])]

\* the four list prompts of server.js; the text up to the opening quote is
\* one symbol
IngredientsToEnglish == "Translate the following list of kitchen ingredients to English. Keep the exact same separator (\"|||\") between each item: \""
TitlesToSpanish      == "Translate the following list of recipe titles to Spanish. Keep the exact same separator (\"|||\") between each item: \""
MissingToSpanish     == "Translate the following list of kitchen ingredients to Spanish. Keep the exact same separator (\"|||\") between each item: \""
IngredientsToSpanish == "Translate the following list of ingredients to Spanish. Keep the exact same separator (\"|||\") between each item: \""

Templates == {IngredientsToEnglish, TitlesToSpanish, MissingToSpanish, IngredientsToSpanish}

\* `${template}"${joined}"`
ListPrompt(template, joined) == <<template>> \o joined \o <<"\"">>

IsListPrompt(text) == Len(text) >= 2 /\ text[1] \in Templates

\* ${value} in a template literal
Interpolate(value) ==
    IF value = Null THEN <<"null">>
    ELSE IF value = Undefined THEN <<"undefined">>
    ELSE value

\* the pieces of a faithful answer: one translated piece per item of the
\* list, or the translated text itself
IdealPieces(text) ==
    IF IsListPrompt(text)
    THEN LET items == Split(SubSeq(text, 2, Len(text) - 1), separador)
         IN  [i \in 1..Len(items) |-> TrStr(items[i])]
    ELSE <<TrStr(Interpolate(text))>>

\* the provider writes the pieces with the separator, a blank after each
\* separator and a trailing blank
RECURSIVE Render(_)
Render(pieces) ==
    IF pieces = <<>> THEN <<>>
    ELSE IF Len(pieces) = 1 THEN Head(pieces) \o <<" ">>
    ELSE Head(pieces) \o separador \o <<" ">> \o Render(Tail(pieces))

\* answers that do not follow the instruction: the last piece dropped, one
\* piece too many, one piece left blank
UnfaithfulPieces(ideal) ==
    {SubSeq(ideal, 1, Len(ideal) - 1), ideal \o <<<<"z">>>>}
    \cup {[ideal EXCEPT ![j] = <<>>] : j \in 1..Len(ideal)}

\* result.response.text() of model.generateContent(prompt)
FaithfulAnswer(text) == Render(IdealPieces(text))
UnfaithfulAnswers(text) == {Render(p) : p \in UnfaithfulPieces(IdealPieces(text))}

\* ---- state --------------------------------------------------------------
VARIABLES
    cache,      \* the CacheEntry collection: its documents in insertion order
    now,        \* Date.now(), in hours
    faults,     \* environment faults so far
    model,      \* translationService: the Gemini client, FALSE without API key
    calls,      \* the invocations of translateText, by invocation id
    client,     \* per direct caller, the calls that have returned
    search,     \* the running GET /api/recetas/inventario request
    prevSearch, \* the search request answered before it
    detail,     \* the running GET /api/recetas/detalles/:recipeId request
    prevDetail, \* the detail request answered before it
    inventory,  \* the Inventory collection: its documents in insertion order
    reqs        \* the requests to the user and inventory routes, by connection

vars == <<cache, now, faults, model, calls, client, search, prevSearch, detail, prevDetail, inventory, reqs>>

\* the route handlers' state
handlers == <<search, prevSearch, detail, prevDetail, inventory, reqs>>

\* the state of the user and inventory routes
stock == <<inventory, reqs>>

Callers == {"c1", "c2"}

\* the translateText calls of a search request
SearchCalls == {"ing", "titles", "missing"}

\* the translateText calls of a detail request
DetailCalls == {"title", "summary", "instructions", "ingredients"}

CallIds == Callers \cup SearchCalls \cup DetailCalls

\* slip: the document keeps the key in place of the data
NewCacheEntry_KeyAsData(key, data, t) == [cacheKey |-> key, data |-> key, createdAt |-> t]

\* new CacheEntry({cacheKey, data}); createdAt defaults to Date.now
NewCacheEntry(key, data, t) == [cacheKey |-> key, data |-> data, createdAt |-> t]

\* `translation:${sourceLang}:${targetLang}:${textToTranslate}`
TranslationCacheKey(src, tgt, text) ==
    <<"translation:", src, ":", tgt, ":">> \o Interpolate(text)

\* slip: the lookup finds nothing
FindOne_Miss(key) == {}

\* CacheEntry.findOne({cacheKey}): the documents the query can return
FindOne(key) == {cache[i] : i \in {j \in 1..Len(cache) : cache[j].cacheKey = key}}

\* slip: the index is not unique
DuplicateKey_Never(key) == FALSE

\* the unique index on cacheKey rejects a second document with the key
DuplicateKey(key) == \E i \in 1..Len(cache) : cache[i].cacheKey = key

\* the TTL index: a document is expired once its age reaches the TTL
Expired(e) == now - e.createdAt >= TTL

IdleCall ==
    [pc |-> "idle", text |-> <<>>, src |-> "", tgt |-> "",
     translatedText |-> Null, result |-> Null, providerCalls |-> 0,
     err |-> "none", doneAt |-> -1]

\* entry of translateText: without a Gemini client it returns null at once
StartCall(text, src, tgt) ==
    IF ~model
    THEN [IdleCall EXCEPT !.pc = "done", !.text = text, !.src = src, !.tgt = tgt,
                          !.err = "nomodel", !.doneAt = now]
    ELSE [IdleCall EXCEPT !.pc = "findOne", !.text = text, !.src = src, !.tgt = tgt]

\* await CacheEntry.findOne(...): error -> catch -> null; hit -> the stored
\* data; miss -> go on to the provider
TFindOne(c) ==
    /\ calls[c].pc = "findOne"
    /\ LET k == TranslationCacheKey(calls[c].src, calls[c].tgt, calls[c].text)
       IN  \/ /\ faults < MaxFaults
              /\ faults' = faults + 1
              /\ calls' = [calls EXCEPT ![c].pc = "done", ![c].doneAt = now, ![c].result = Null,
                                        ![c].err = "db"]
           \/ /\ \E e \in FindOne(k) :
                    calls' = [calls EXCEPT ![c].pc = "done", ![c].doneAt = now, ![c].result = e.data,
                                           ![c].err = "hit"]
              /\ UNCHANGED faults
           \/ /\ FindOne(k) = {}
              /\ calls' = [calls EXCEPT ![c].pc = "generate"]
              /\ UNCHANGED faults
    /\ UNCHANGED <<cache, now, model, client, handlers>>

\* await model.generateContent(prompt); response.text().trim()
TGenerate(c) ==
    /\ calls[c].pc = "generate"
    /\ \/ /\ calls' = [calls EXCEPT ![c].pc = "create",
                          ![c].translatedText = Trim(FaithfulAnswer(calls[c].text)),
                          ![c].providerCalls = @ + 1]
          /\ UNCHANGED faults
       \/ /\ faults < MaxFaults
          /\ faults' = faults + 1
          /\ \/ \E a \in UnfaithfulAnswers(calls[c].text) :
                   calls' = [calls EXCEPT ![c].pc = "create",
                                ![c].translatedText = Trim(a),
                                ![c].providerCalls = @ + 1]
             \/ calls' = [calls EXCEPT ![c].pc = "done", ![c].doneAt = now, ![c].result = Null,
                             ![c].providerCalls = @ + 1, ![c].err = "provider"]
    /\ UNCHANGED <<cache, now, model, client, handlers>>

\* await CacheEntry.create({cacheKey, data: translatedText}); return
\* translatedText; any rejection -> catch -> null
TCreate(c) ==
    /\ calls[c].pc = "create"
    /\ LET k == TranslationCacheKey(calls[c].src, calls[c].tgt, calls[c].text)
       IN  \/ /\ faults < MaxFaults
              /\ faults' = faults + 1
              /\ calls' = [calls EXCEPT ![c].pc = "done", ![c].doneAt = now, ![c].result = Null,
                                        ![c].err = "db"]
              /\ UNCHANGED cache
           \/ /\ DuplicateKey(k)
              /\ calls' = [calls EXCEPT ![c].pc = "done", ![c].doneAt = now, ![c].result = Null,
                                        ![c].err = "duplicate"]
              /\ UNCHANGED <<cache, faults>>
           \/ /\ ~DuplicateKey(k)
              /\ cache' = Append(cache, NewCacheEntry(k, calls[c].translatedText, now))
              /\ calls' = [calls EXCEPT ![c].pc = "done", ![c].doneAt = now,
                                        ![c].result = calls[c].translatedText]
              /\ UNCHANGED faults
    /\ UNCHANGED <<now, model, client, handlers>>

\* ---- the clock and the TTL monitor of the database -----------------------
Tick ==
    /\ \E d \in TickSteps : now + d <= MaxTime /\ now' = now + d
    /\ UNCHANGED <<cache, faults, model, calls, client, handlers>>

\* the TTL monitor removes an expired document at some time after it expired
Purge ==
    /\ \E i \in 1..Len(cache) :
          /\ Expired(cache[i])
          /\ cache' = SubSeq(cache, 1, i - 1) \o SubSeq(cache, i + 1, Len(cache))
    /\ UNCHANGED <<now, faults, model, calls, client, handlers>>

\* ---- GET /api/recetas/inventario -----------------------------------------
\* slip: the object is built without ...obj
SpreadWithoutRest(obj, over) == over

\* { ...obj, f1: v1, ... }: the fields of obj, those of over on top
Spread(obj, over) ==
    [f \in DOMAIN obj \cup DOMAIN over |-> IF f \in DOMAIN over THEN over[f] ELSE obj[f]]

\* slip: the index is taken from 1
At_OneBased(arr, i) == IF i \in 1..Len(arr) THEN arr[i] ELSE Undefined

\* arr[i] of JavaScript (from 0): undefined outside the array
At(arr, i) == IF i + 1 \in 1..Len(arr) THEN arr[i + 1] ELSE Undefined

\* article names: the inventory schema requires and trims them, and
\* createOrUpdateAlimento keeps one record per name and user when requests
\* do not overlap
SpanishNames == {<<"a">>, <<"b">>, <<"c">>}

Inventories ==
    {inv \in UNION {[1..n -> SpanishNames] : n \in 0..MaxItems} :
        \A i, j \in 1..Len(inv) : inv[i] = inv[j] => i = j}

\* req.query: diet, maxCalories, maxCarbs, maxProtein, maxSugar
NoFilters ==
    [diet |-> Undefined, maxCalories |-> Undefined, maxCarbs |-> Undefined,
     maxProtein |-> Undefined, maxSugar |-> Undefined]

QuerySamples ==
    {NoFilters,
     [NoFilters EXCEPT !.diet = <<"none">>],
     [NoFilters EXCEPT !.diet = <<"vegan">>, !.maxCalories = <<"500">>],
     [NoFilters EXCEPT !.diet = <<"vegan">>, !.maxCarbs = <<"500">>]}

\* what the recipe provider answers to a search: data.results
Bread   == [id |-> 1, title |-> <<"x", "y">>, image |-> "1.jpg",
            missedIngredients |-> <<[id |-> 11, original |-> <<"y">>, amount |-> 2],
                                    [id |-> 12, original |-> <<"z">>, amount |-> 1]>>]
Omelette == [id |-> 2, title |-> <<"z">>, image |-> "2.jpg",
            missedIngredients |-> <<[id |-> 21, original |-> <<"x">>, amount |-> 3]>>]
Toast   == [id |-> 3, title |-> <<"y">>, image |-> "3.jpg", missedIngredients |-> <<>>]
Salad   == [id |-> 4, title |-> <<"y", "z">>, image |-> "4.jpg"]

SearchResultSamples ==
    {<<>>, <<Toast, Salad>>, <<Bread, Omelette>>, <<Salad, Omelette>>}

\* the error messages of the route
TranslationFailed == "La traducción de ingredientes (ES->EN) falló."
SearchApiFailed   == "Error al llamar a Spoonacular API (Search)."
CollaboratorError == "error.message of a rejected database or network call"

IdleSearch ==
    [pc |-> "idle", spanishIngredients |-> <<>>, query |-> NoFilters,
     translatedIngredientsString |-> Null, data |-> <<>>, hit |-> FALSE,
     fetches |-> 0, stored |-> FALSE, status |-> 0, body |-> <<>>, details |-> ""]

\* res.status(status).json(body) and the handler ends
Respond(req, status, body, details) ==
    [req EXCEPT !.pc = "done", !.status = status, !.body = body, !.details = details]

\* catch (error): res.status(500).json({error, details: error.message})
Fail(req, message) == Respond(req, 500, <<>>, message)

\* translatedIngredientsString.split(separador).map(s => s.trim())
EnglishPieces(translated) == MapTrim(Split(translated, separador))

\* englishIngredients.sort()
EnglishIngredients(translated) == Sort(EnglishPieces(translated))

\* englishIngredients.join(',')
IngredientsCommaSeparated(translated) == Join(EnglishIngredients(translated), <<",">>)

\* slip: only the diet goes into the string
FiltersQueryString_DietOnly(q) ==
    IF Truthy(q.diet) /\ q.diet # <<"none">> THEN <<"&diet=">> \o q.diet ELSE <<>>

\* filtersQueryString
FiltersQueryString(q) ==
    (IF Truthy(q.diet) /\ q.diet # <<"none">> THEN <<"&diet=">> \o q.diet ELSE <<>>)
    \o (IF Truthy(q.maxCalories) THEN <<"&maxCalories=">> \o q.maxCalories ELSE <<>>)
    \o (IF Truthy(q.maxCarbs) THEN <<"&maxCarbs=">> \o q.maxCarbs ELSE <<>>)
    \o (IF Truthy(q.maxProtein) THEN <<"&maxProtein=">> \o q.maxProtein ELSE <<>>)
    \o (IF Truthy(q.maxSugar) THEN <<"&maxSugar=">> \o q.maxSugar ELSE <<>>)

\* spoonacularSearchCacheKey
SearchCacheKey(translated, q) ==
    <<"spoonacular:search:">> \o IngredientsCommaSeparated(translated)
    \o <<":sort=min-missing-ingredients:">> \o FiltersQueryString(q)

HasMissed(recipe) == "missedIngredients" \in DOMAIN recipe

\* allMissingIngredients: ing.original of every missed ingredient, in order
RECURSIVE AllMissingIngredients(_)
AllMissingIngredients(data) ==
    IF data = <<>> THEN <<>>
    ELSE (IF HasMissed(Head(data))
          THEN [i \in 1..Len(Head(data).missedIngredients) |->
                   Head(data).missedIngredients[i].original]
          ELSE <<>>)
         \o AllMissingIngredients(Tail(data))

\* the prompt of the titles batch
TitlesPrompt(data) ==
    ListPrompt(TitlesToSpanish, Join([i \in 1..Len(data) |-> data[i].title], separador))

\* the prompt of the missing-ingredient batch
MissingPrompt(data) ==
    ListPrompt(MissingToSpanish, Join(AllMissingIngredients(data), separador))

\* translatedString ? translatedString.split(separador).map(s => s.trim()) : []
SplitOrEmpty(translated) ==
    IF Truthy(translated) THEN MapTrim(Split(translated, separador)) ELSE <<>>

\* translatedData of the search route: the running index
\* missingIngredientIndex has counted the missed ingredients of the recipes
\* before recipeIndex
TranslatedSearchData(data, translatedTitlesString, translatedMissingString) ==
    LET translatedTitles  == SplitOrEmpty(translatedTitlesString)
        translatedMissing == SplitOrEmpty(translatedMissingString)
        before(r) == Len(AllMissingIngredients(SubSeq(data, 1, r - 1)))
        missed(r) ==
            IF HasMissed(data[r])
            THEN [j \in 1..Len(data[r].missedIngredients) |->
                    Spread(data[r].missedIngredients[j],
                           [original |-> OrElse(At(translatedMissing, before(r) + j - 1),
                                                data[r].missedIngredients[j].original)])]
            ELSE <<>>
    IN  [r \in 1..Len(data) |->
            Spread(data[r], [title |-> OrElse(At(translatedTitles, r - 1), data[r].title),
                             missedIngredients |-> missed(r)])]

\* slip: the ingredient translation starts whatever the inventory
SStartWith_NoEarlyReturn(inv, q) ==
    LET req == [search EXCEPT !.spanishIngredients = inv, !.query = q]
    IN  \/ /\ faults < MaxFaults /\ faults' = faults + 1 /\ search' = Fail(req, CollaboratorError) /\ UNCHANGED calls
        \/ /\ search' = [req EXCEPT !.pc = "awaitIng"] /\ calls' = [calls EXCEPT !["ing"] = StartCall(ListPrompt(IngredientsToEnglish, Join(inv, separador)), "es", "en")] /\ UNCHANGED faults

\* the handler up to the first await of translateText: the inventory is read
\* (a rejection goes to the catch), an empty inventory is answered at once
SStartWith(inv, q) ==
    LET req == [search EXCEPT !.spanishIngredients = inv, !.query = q]
    IN  \/ /\ faults < MaxFaults
           /\ faults' = faults + 1
           /\ search' = Fail(req, CollaboratorError)
           /\ UNCHANGED calls
        \/ /\ inv = <<>>
           /\ search' = Respond(req, 200, <<>>, "")
           /\ UNCHANGED <<calls, faults>>
        \/ /\ inv # <<>>
           /\ search' = [req EXCEPT !.pc = "awaitIng"]
           /\ calls' = [calls EXCEPT !["ing"] =
                  StartCall(ListPrompt(IngredientsToEnglish, Join(inv, separador)),
                            "es", "en")]
           /\ UNCHANGED faults

\* the request of a user whose inventory is any of the inventories
SStart ==
    /\ search.pc = "idle"
    /\ \E inv \in Inventories, q \in QuerySamples : SStartWith(inv, q)
    /\ UNCHANGED <<cache, now, model, client, prevSearch, detail, prevDetail, stock>>

\* translateText has returned: no translation throws, otherwise the cache
\* lookup of the search is issued
SAfterIngredients ==
    /\ search.pc = "awaitIng"
    /\ calls["ing"].pc = "done"
    /\ LET req == [search EXCEPT !.translatedIngredientsString = calls["ing"].result]
       IN  IF ~Truthy(calls["ing"].result)
           THEN search' = Fail(req, TranslationFailed)
           ELSE search' = [req EXCEPT !.pc = "findOne"]
    /\ UNCHANGED <<cache, now, faults, model, calls, client, prevSearch, detail, prevDetail, stock>>

\* slip: the missing-ingredient batch is translated whatever its size
SWithData_BothBatches(req, data) ==
    IF data = <<>>
    THEN /\ search' = Respond([req EXCEPT !.data = data], 200, <<>>, "")
         /\ UNCHANGED calls
    ELSE /\ search' = [req EXCEPT !.pc = "awaitTranslations", !.data = data]
         /\ calls' = [calls EXCEPT
                !["titles"] = StartCall(TitlesPrompt(data), "en", "es"),
                !["missing"] = StartCall(MissingPrompt(data), "en", "es")]

\* data is in hand (from the cache or from the provider): no results are
\* answered at once, otherwise the two translations of the results start
SWithData(req, data) ==
    IF data = <<>>
    THEN /\ search' = Respond([req EXCEPT !.data = data], 200, <<>>, "")
         /\ UNCHANGED calls
    ELSE /\ search' = [req EXCEPT !.pc = "awaitTranslations", !.data = data]
         /\ calls' = [calls EXCEPT
                !["titles"] = StartCall(TitlesPrompt(data), "en", "es"),
                !["missing"] = IF AllMissingIngredients(data) # <<>>
                               THEN StartCall(MissingPrompt(data), "en", "es")
                               ELSE IdleCall]

\* await CacheEntry.findOne({cacheKey: spoonacularSearchCacheKey})
SFindOne ==
    /\ search.pc = "findOne"
    /\ LET k == SearchCacheKey(search.translatedIngredientsString, search.query)
       IN  \/ /\ faults < MaxFaults
              /\ faults' = faults + 1
              /\ search' = Fail(search, CollaboratorError)
              /\ UNCHANGED calls
           \/ /\ \E e \in FindOne(k) : SWithData([search EXCEPT !.hit = TRUE], e.data)
              /\ UNCHANGED faults
           \/ /\ FindOne(k) = {}
              /\ search' = [search EXCEPT !.pc = "fetch"]
              /\ UNCHANGED <<calls, faults>>
    /\ UNCHANGED <<cache, now, model, client, prevSearch, detail, prevDetail, stock>>

\* await fetch(url); await respuesta.json(); if (!respuesta.ok) throw
SFetch ==
    /\ search.pc = "fetch"
    /\ \/ \E results \in SearchResultSamples :
             /\ search' = [search EXCEPT !.pc = "create", !.data = results,
                                         !.fetches = @ + 1]
             /\ UNCHANGED faults
       \/ /\ faults < MaxFaults
          /\ faults' = faults + 1
          /\ \E message \in {SearchApiFailed, CollaboratorError} :
                search' = Fail([search EXCEPT !.fetches = @ + 1], message)
    /\ UNCHANGED <<cache, now, model, calls, client, prevSearch, detail, prevDetail, stock>>

\* await CacheEntry.create({cacheKey, data: data.results}); data = data.results
SCreate ==
    /\ search.pc = "create"
    /\ LET k == SearchCacheKey(search.translatedIngredientsString, search.query)
       IN  \/ /\ faults < MaxFaults
              /\ faults' = faults + 1
              /\ search' = Fail(search, CollaboratorError)
              /\ UNCHANGED <<cache, calls>>
           \/ /\ DuplicateKey(k)
              /\ search' = Fail(search, CollaboratorError)
              /\ UNCHANGED <<cache, calls, faults>>
           \/ /\ ~DuplicateKey(k)
              /\ cache' = Append(cache, NewCacheEntry(k, search.data, now))
              /\ SWithData([search EXCEPT !.stored = TRUE], search.data)
              /\ UNCHANGED faults
    /\ UNCHANGED <<now, model, client, prevSearch, detail, prevDetail, stock>>

\* Promise.all has settled: both translations are in; the response is built
SAssemble ==
    /\ search.pc = "awaitTranslations"
    /\ calls["titles"].pc = "done"
    /\ calls["missing"].pc \in {"idle", "done"}
    /\ search' = Respond(search, 200,
                         TranslatedSearchData(search.data, calls["titles"].result,
                                              calls["missing"].result), "")
    /\ UNCHANGED <<cache, now, faults, model, calls, client, prevSearch, detail, prevDetail, stock>>

\* the next search request arrives after the first was answered
SNextRequest ==
    /\ search.pc = "done"
    /\ prevSearch.pc = "idle"
    /\ prevSearch' = search
    /\ search' = IdleSearch
    /\ calls' = [c \in CallIds |-> IF c \in SearchCalls THEN IdleCall ELSE calls[c]]
    /\ UNCHANGED <<cache, now, faults, model, client, detail, prevDetail, stock>>

\* ---- GET /api/recetas/detalles/:recipeId ---------------------------------
\* what the recipe provider knows about a recipe id
Pancake == [id |-> 7, title |-> <<"x">>, summary |-> <<"y", "z">>,
            instructions |-> <<"z">>, image |-> "7.jpg", servings |-> 2,
            extendedIngredients |->
                <<[id |-> 71, original |-> <<"x">>, amount |-> 1, unit |-> "cup"],
                  [id |-> 72, original |-> <<"y">>, amount |-> 2, unit |-> "g"]>>]
Soup    == [id |-> 8, title |-> <<"y">>, summary |-> <<"x">>,
            instructions |-> Null, image |-> "8.jpg", servings |-> 4,
            extendedIngredients |->
                <<[id |-> 81, original |-> <<"z">>, amount |-> 3, unit |-> "ml"]>>]
Broth   == [id |-> 9, title |-> <<"z">>, summary |-> <<"y">>,
            instructions |-> <<"x">>, image |-> "9.jpg", servings |-> 1]

RecipeIds == {"7", "8", "9"}

DetailOf(recipeId) ==
    CASE recipeId = "7" -> Pancake
      [] recipeId = "8" -> Soup
      [] recipeId = "9" -> Broth

\* the statuses of a provider that refuses: not found, quota exhausted
ProviderStatuses == {404, 402}

DetailsApiFailed == "data.message of the provider's error body"

NoRecipe == [id |-> 0]

IdleDetail ==
    [pc |-> "idle", recipeId |-> "", data |-> NoRecipe, hit |-> FALSE,
     fetches |-> 0, stored |-> FALSE, status |-> 0, body |-> NoRecipe, details |-> ""]

\* spoonacularDetailsCacheKey
DetailsCacheKey(recipeId) == <<"spoonacular:details:", recipeId>>

\* the prompt of the ingredient batch of the detail route
DetailIngredientsPrompt(data) ==
    ListPrompt(IngredientsToSpanish,
               Join([i \in 1..Len(data.extendedIngredients) |->
                        data.extendedIngredients[i].original], separator))

\* translatedData of the detail route
TranslatedDetailData(data, translatedTitle, translatedSummary, translatedInstructions, translatedJoinedString) ==
    LET translatedIngredients ==
            IF Truthy(translatedJoinedString)
            THEN Split(translatedJoinedString, separator)
            ELSE <<>>
    IN  Spread(data,
          [title |-> OrElse(translatedTitle, data.title),
           summary |-> OrElse(translatedSummary, data.summary),
           instructions |-> OrElse(translatedInstructions, data.instructions),
           extendedIngredients |->
             [i \in 1..Len(data.extendedIngredients) |->
                Spread(data.extendedIngredients[i],
                   [original |->
                      IF Truthy(At(translatedIngredients, i - 1))
                      THEN Trim(At(translatedIngredients, i - 1))
                      ELSE data.extendedIngredients[i].original])]])

\* the handler up to its first await: the cache lookup is issued
DStart ==
    /\ detail.pc = "idle"
    /\ \E recipeId \in RecipeIds :
          detail' = [detail EXCEPT !.pc = "findOne", !.recipeId = recipeId]
    /\ UNCHANGED <<cache, now, faults, model, calls, client, search, prevSearch, prevDetail, stock>>

\* data is in hand: the three single translations start, then the ingredient
\* strings are read; a record without extendedIngredients throws there and
\* the catch answers 500 while the three translations go on
DWithData(req, data) ==
    LET singles == [calls EXCEPT
                      !["title"] = StartCall(data.title, "en", "es"),
                      !["summary"] = StartCall(data.summary, "en", "es"),
                      !["instructions"] = StartCall(data.instructions, "en", "es")]
    IN  IF "extendedIngredients" \in DOMAIN data
        THEN /\ detail' = [req EXCEPT !.pc = "awaitTranslations", !.data = data]
             /\ calls' = [singles EXCEPT !["ingredients"] =
                            StartCall(DetailIngredientsPrompt(data), "en", "es")]
        ELSE /\ detail' = Fail([req EXCEPT !.data = data], CollaboratorError)
             /\ calls' = singles

\* await CacheEntry.findOne({cacheKey: spoonacularDetailsCacheKey})
DFindOne ==
    /\ detail.pc = "findOne"
    /\ LET k == DetailsCacheKey(detail.recipeId)
       IN  \/ /\ faults < MaxFaults
              /\ faults' = faults + 1
              /\ detail' = Fail(detail, CollaboratorError)
              /\ UNCHANGED calls
           \/ /\ \E e \in FindOne(k) : DWithData([detail EXCEPT !.hit = TRUE], e.data)
              /\ UNCHANGED faults
           \/ /\ FindOne(k) = {}
              /\ detail' = [detail EXCEPT !.pc = "fetch"]
              /\ UNCHANGED <<calls, faults>>
    /\ UNCHANGED <<cache, now, model, client, search, prevSearch, prevDetail, stock>>

\* slip: the refusal of the provider is stored under the key
DFetch_CachesFailure ==
    /\ detail.pc = "fetch"
    /\ \/ /\ detail' = [detail EXCEPT !.pc = "create", !.fetches = @ + 1,
                                      !.data = DetailOf(detail.recipeId)]
          /\ UNCHANGED <<faults, cache>>
       \/ /\ faults < MaxFaults
          /\ faults' = faults + 1
          /\ \E status \in ProviderStatuses :
                detail' = Respond([detail EXCEPT !.fetches = @ + 1],
                                  status, NoRecipe, DetailsApiFailed)
          /\ cache' = Append(cache, NewCacheEntry(DetailsCacheKey(detail.recipeId), NoRecipe, now))
    /\ UNCHANGED <<now, model, calls, client, search, prevSearch, prevDetail, stock>>

\* await fetch(url); await respuesta.json(); a refusal of the provider is
\* answered with the provider's status, a rejection goes to the catch
DFetch ==
    /\ detail.pc = "fetch"
    /\ \/ /\ detail' = [detail EXCEPT !.pc = "create", !.fetches = @ + 1,
                                      !.data = DetailOf(detail.recipeId)]
          /\ UNCHANGED faults
       \/ /\ faults < MaxFaults
          /\ faults' = faults + 1
          /\ \/ \E status \in ProviderStatuses :
                   detail' = Respond([detail EXCEPT !.fetches = @ + 1],
                                     status, NoRecipe, DetailsApiFailed)
             \/ detail' = Fail([detail EXCEPT !.fetches = @ + 1], CollaboratorError)
    /\ UNCHANGED <<cache, now, model, calls, client, search, prevSearch, prevDetail, stock>>

\* await CacheEntry.create({cacheKey, data}): the whole record is stored
DCreate ==
    /\ detail.pc = "create"
    /\ LET k == DetailsCacheKey(detail.recipeId)
       IN  \/ /\ faults < MaxFaults
              /\ faults' = faults + 1
              /\ detail' = Fail(detail, CollaboratorError)
              /\ UNCHANGED <<cache, calls>>
           \/ /\ DuplicateKey(k)
              /\ detail' = Fail(detail, CollaboratorError)
              /\ UNCHANGED <<cache, calls, faults>>
           \/ /\ ~DuplicateKey(k)
              /\ cache' = Append(cache, NewCacheEntry(k, detail.data, now))
              /\ DWithData([detail EXCEPT !.stored = TRUE], detail.data)
              /\ UNCHANGED faults
    /\ UNCHANGED <<now, model, client, search, prevSearch, prevDetail, stock>>

\* slip: the response is built when the title is in
DAssemble_Early ==
    /\ detail.pc = "awaitTranslations"
    /\ calls["title"].pc = "done"
    /\ detail' = Respond(detail, 200,
                         TranslatedDetailData(detail.data, calls["title"].result,
                                              calls["summary"].result,
                                              calls["instructions"].result,
                                              calls["ingredients"].result), "")
    /\ UNCHANGED <<cache, now, faults, model, calls, client, search, prevSearch, prevDetail, stock>>

\* Promise.all has settled: the four translations are in
DAssemble ==
    /\ detail.pc = "awaitTranslations"
    /\ \A c \in DetailCalls : calls[c].pc = "done"
    /\ detail' = Respond(detail, 200,
                         TranslatedDetailData(detail.data, calls["title"].result,
                                              calls["summary"].result,
                                              calls["instructions"].result,
                                              calls["ingredients"].result), "")
    /\ UNCHANGED <<cache, now, faults, model, calls, client, search, prevSearch, prevDetail, stock>>

\* the next detail request arrives after the first was answered and the
\* translations it started have returned
DNextRequest ==
    /\ detail.pc = "done"
    /\ prevDetail.pc = "idle"
    /\ \A c \in DetailCalls : calls[c].pc \in {"idle", "done"}
    /\ prevDetail' = detail
    /\ detail' = IdleDetail
    /\ calls' = [c \in CallIds |-> IF c \in DetailCalls THEN IdleCall ELSE calls[c]]
    /\ UNCHANGED <<cache, now, faults, model, client, search, prevSearch, stock>>

\* ---- users and inventory: checkAuth, userService, the inventory routes ---
\* the _id of the User_data documents
Users == {"u1", "u2"}

\* req.query.userId: absent, of a user, well formed of no user, malformed
UserIdSamples == {"", "u1", "u2", "u9", "bad"}

\* the string can be cast to an ObjectId
WellFormedUserId(id) == id # "bad"

\* a number of the request body is given in halves, as a sequence of one
\* integer (<<5>> is 2.5); an absent number is the empty sequence
TruthyNumber(q) == q # <<>> /\ q[1] # 0

\* parseInt of a number given in halves: the fraction is dropped
ParseInt(q) == IF q[1] >= 0 THEN q[1] \div 2 ELSE -((-q[1]) \div 2)

\* c.toLowerCase()
LowerChar(c) ==
    CASE c = "A" -> "a"
      [] c = "B" -> "b"
      [] OTHER   -> c

\* s.toLowerCase()
ToLowerCase(s) == [i \in 1..Len(s) |-> LowerChar(s[i])]

\* article_name.toLowerCase().trim()
CleanName(name) == Trim(ToLowerCase(name))

\* inventorySchema: unit enum, quantity min
UnitEnum == {<<"gramos">>, <<"kg">>, <<"unidades">>, <<"litros">>, <<"ml">>}
MinQuantity == 0

\* the documents of the collection before the requests
Flour == [id |-> 1, user |-> "u1", article_name |-> <<"a">>, quantity |-> 1, unit |-> <<"kg">>]
Milk  == [id |-> 2, user |-> "u2", article_name |-> <<"a">>, quantity |-> 3, unit |-> <<"ml">>]

InventorySamples == {<<Flour, Milk>>, <<Milk>>}

\* no document
NoItem == [id |-> 0, user |-> "", article_name |-> <<>>, quantity |-> 0, unit |-> <<>>]

\* req.params.alimentoId: of a document, well formed of no document, malformed
AlimentoIdSamples == {1, 2, 9, -1}

WellFormedAlimentoId(id) == id # -1

\* req.body of the requests
NameSamples     == {<<"a">>, <<"A", " ">>}
QuantitySamples == {<<>>, <<2>>, <<5>>, <<-4>>}
UnitSamples     == {<<"kg">>, <<"tazas">>}

\* req.body of PUT /api/inventario/:alimentoId: the fields given
PutBodies ==
    {[article_name |-> Undefined, quantity |-> <<>>, unit |-> Undefined],
     [article_name |-> Undefined, quantity |-> <<4>>, unit |-> Undefined],
     [article_name |-> Undefined, quantity |-> <<>>, unit |-> <<"tazas">>],
     [article_name |-> <<"B">>, quantity |-> <<>>, unit |-> Undefined]}

\* req.body of POST /api/login: the email of a user or of none; a password
\* is a pair of its JSON type and its text
KnownEmail == <<"e", "1">>
EmailSamples == {Undefined, KnownEmail, <<"e", "9">>}
RightPassword == <<"string", "p">>
PasswordSamples == {RightPassword, <<"string", "q">>, <<"number", "1">>}

ReqIds == {"r1", "r2"}

Ops == {"login", "profile", "recipes", "post", "sumar", "put", "delete"}

\* connection r1 sends any request, connection r2 a POST /api/inventario
OpsOf(r) == IF r = "r1" THEN Ops ELSE {"post"}

\* the _id given to the document a request creates
NewId(r) == IF r = "r1" THEN 11 ELSE 12

IdleReq ==
    [pc |-> "idle", op |-> "", userId |-> "", alimentoId |-> 0,
     article_name |-> Undefined, quantity |-> <<>>, unit |-> Undefined,
     email |-> Undefined, password |-> <<>>,
     found |-> NoItem, status |-> 0, responses |-> 0]

\* res.status(status).json(...) and the handler returns
Answer(req, status) ==
    [req EXCEPT !.pc = "done", !.status = status, !.responses = @ + 1]

\* positions of the documents of a user with a name
ByName(userId, name) ==
    {i \in 1..Len(inventory) :
        inventory[i].user = userId /\ inventory[i].article_name = name}

\* slip: the filter has no user
ByIdAndUser_AnyUser(alimentoId, userId) ==
    {i \in 1..Len(inventory) : inventory[i].id = alimentoId}

\* positions of the documents matched by { _id: alimentoId, user: userId }
ByIdAndUser(alimentoId, userId) ==
    {i \in 1..Len(inventory) :
        inventory[i].id = alimentoId /\ inventory[i].user = userId}

\* the collection without the document at position i
Without(i) == SubSeq(inventory, 1, i - 1) \o SubSeq(inventory, i + 1, Len(inventory))

\* inventario.map(item => item.article_name) of Inventory.find({ user })
RECURSIVE NamesIn(_, _)
NamesIn(docs, userId) ==
    IF docs = <<>> THEN <<>>
    ELSE (IF Head(docs).user = userId THEN <<Head(docs).article_name>> ELSE <<>>)
         \o NamesIn(Tail(docs), userId)

\* the request arrives
Arrive(r) ==
    /\ reqs[r].pc = "idle"
    /\ \E op \in OpsOf(r) :
          \/ /\ op = "login"
             /\ \E e \in EmailSamples, pw \in PasswordSamples :
                   reqs' = [reqs EXCEPT ![r] =
                              IF ~Truthy(e)
                              THEN Answer([IdleReq EXCEPT !.op = op, !.email = e, !.password = pw], 400)
                              ELSE [IdleReq EXCEPT !.pc = "login", !.op = op, !.email = e,
                                                   !.password = pw]]
          \/ /\ op \in {"profile", "recipes"}
             /\ \E u \in UserIdSamples :
                   reqs' = [reqs EXCEPT ![r] =
                              [IdleReq EXCEPT !.pc = "auth", !.op = op, !.userId = u]]
          \/ /\ op = "post"
             /\ \E u \in UserIdSamples, n \in NameSamples, q \in QuantitySamples, un \in UnitSamples :
                   reqs' = [reqs EXCEPT ![r] =
                              [IdleReq EXCEPT !.pc = "auth", !.op = op, !.userId = u,
                                              !.article_name = n, !.quantity = q, !.unit = un]]
          \/ /\ op = "sumar"
             /\ \E u \in UserIdSamples, a \in AlimentoIdSamples, q \in QuantitySamples \ {<<5>>} :
                   reqs' = [reqs EXCEPT ![r] =
                              [IdleReq EXCEPT !.pc = "auth", !.op = op, !.userId = u,
                                              !.alimentoId = a, !.quantity = q]]
          \/ /\ op = "put"
             /\ \E u \in UserIdSamples, a \in AlimentoIdSamples, b \in PutBodies :
                   reqs' = [reqs EXCEPT ![r] =
                              [IdleReq EXCEPT !.pc = "auth", !.op = op, !.userId = u,
                                              !.alimentoId = a, !.article_name = b.article_name,
                                              !.quantity = b.quantity, !.unit = b.unit]]
          \/ /\ op = "delete"
             /\ \E u \in UserIdSamples, a \in AlimentoIdSamples :
                   reqs' = [reqs EXCEPT ![r] =
                              [IdleReq EXCEPT !.pc = "auth", !.op = op, !.userId = u,
                                              !.alimentoId = a]]
    /\ UNCHANGED <<cache, now, faults, model, calls, client, search, prevSearch, detail, prevDetail, inventory>>

\* the route handler up to its first await, entered by next()
HandlerEntry(req) ==
    CASE req.op = "post" ->
           IF ~Truthy(req.article_name) \/ ~TruthyNumber(req.quantity) \/ ~Truthy(req.unit)
           THEN Answer(req, 400)
           ELSE [req EXCEPT !.pc = "find"]
      [] req.op = "sumar" ->
           IF ~TruthyNumber(req.quantity) THEN Answer(req, 400)
           ELSE [req EXCEPT !.pc = "sumar"]
      [] req.op = "put" ->
           IF ~Truthy(req.article_name) /\ ~TruthyNumber(req.quantity) /\ ~Truthy(req.unit)
           THEN Answer(req, 400)
           ELSE [req EXCEPT !.pc = "put"]
      [] OTHER -> [req EXCEPT !.pc = req.op]

\* slip: any id is taken for a user
FindById_Any(id) == {id}

\* User_data.findById(userId) of a well-formed id: the user, or none
FindById(id) == {u \in Users : u = id}

\* checkAuth: no userId 401; User_data.findById rejects (malformed id,
\* database error) 400; no such user 401; otherwise next()
CheckAuth(r) ==
    /\ reqs[r].pc = "auth"
    /\ \/ /\ reqs[r].userId = ""
          /\ reqs' = [reqs EXCEPT ![r] = Answer(@, 401)]
          /\ UNCHANGED faults
       \/ /\ reqs[r].userId # ""
          /\ faults < MaxFaults
          /\ faults' = faults + 1
          /\ reqs' = [reqs EXCEPT ![r] = Answer(@, 400)]
       \/ /\ reqs[r].userId # ""
          /\ reqs' = [reqs EXCEPT ![r] =
                        IF ~WellFormedUserId(@.userId) THEN Answer(@, 400)
                        ELSE IF FindById(@.userId) = {} THEN Answer(@, 401)
                        ELSE HandlerEntry(@)]
          /\ UNCHANGED faults
    /\ UNCHANGED <<cache, now, model, calls, client, search, prevSearch, detail, prevDetail, inventory>>

\* POST /api/login: await userService.findUserByCredentials(email,
\* password): no user 401; bcrypt.compare rejects a password that is not a
\* string; User_data.findOne may reject. The handler has no catch: when the
\* service rejects, the promise of the handler rejects, and nothing is sent
\* (Express 4) or the default error handler answers 500 (Express 5)
Login(r) ==
    /\ reqs[r].pc = "login"
    /\ LET rejection == \/ reqs' = [reqs EXCEPT ![r].pc = "rejected"]
                        \/ reqs' = [reqs EXCEPT ![r] = Answer(@, 500)]
       IN  \/ /\ faults < MaxFaults
              /\ faults' = faults + 1
              /\ rejection
           \/ /\ reqs[r].email # KnownEmail
              /\ reqs' = [reqs EXCEPT ![r] = Answer(@, 401)]
              /\ UNCHANGED faults
           \/ /\ reqs[r].email = KnownEmail
              /\ reqs[r].password[1] # "string"
              /\ rejection
              /\ UNCHANGED faults
           \/ /\ reqs[r].email = KnownEmail
              /\ reqs[r].password[1] = "string"
              /\ reqs' = [reqs EXCEPT ![r] =
                            Answer(@, IF reqs[r].password = RightPassword THEN 200 ELSE 401)]
              /\ UNCHANGED faults
    /\ UNCHANGED <<cache, now, model, calls, client, search, prevSearch, detail, prevDetail, inventory>>

\* GET /api/profile
Profile(r) ==
    /\ reqs[r].pc = "profile"
    /\ \/ /\ reqs' = [reqs EXCEPT ![r] = Answer(@, 200)]
          /\ UNCHANGED faults
       \/ /\ faults < MaxFaults
          /\ faults' = faults + 1
          /\ reqs' = [reqs EXCEPT ![r] = Answer(@, 500)]
    /\ UNCHANGED <<cache, now, model, calls, client, search, prevSearch, detail, prevDetail, inventory>>

\* GET /api/recetas/inventario after checkAuth: the handler of the search
\* route starts with the names of the user's documents; when it has not
\* answered at once the request goes on in the search route
Recipes(r) ==
    /\ reqs[r].pc = "recipes"
    /\ search.pc = "idle"
    /\ \E q \in QuerySamples : SStartWith(NamesIn(inventory, reqs[r].userId), q)
    /\ reqs' = [reqs EXCEPT ![r] =
                  IF search'.pc = "done" THEN Answer(@, search'.status)
                  ELSE [@ EXCEPT !.pc = "search"]]
    /\ UNCHANGED <<cache, now, model, client, prevSearch, detail, prevDetail, inventory>>

\* createOrUpdateAlimento: await findAlimentoByName(userId, cleanName)
PostFind(r) ==
    /\ reqs[r].pc = "find"
    /\ LET name == CleanName(CleanName(ToLowerCase(reqs[r].article_name)))
       IN  \/ /\ faults < MaxFaults
              /\ faults' = faults + 1
              /\ reqs' = [reqs EXCEPT ![r] = Answer(@, 500)]
           \/ /\ \E i \in ByName(reqs[r].userId, name) :
                    reqs' = [reqs EXCEPT ![r].pc = "update", ![r].found = inventory[i]]
              /\ UNCHANGED faults
           \/ /\ ByName(reqs[r].userId, name) = {}
              /\ reqs' = [reqs EXCEPT ![r].pc = "create"]
              /\ UNCHANGED faults
    /\ UNCHANGED <<cache, now, model, calls, client, search, prevSearch, detail, prevDetail, inventory>>

\* createOrUpdateAlimento: await Inventory.updateOne({ _id, user }, { $set:
\* { quantity: newQuantity, unit, article_name } }), no validators; the
\* route answers 201 whether or not a document was modified
PostUpdate(r) ==
    /\ reqs[r].pc = "update"
    /\ LET newQuantity == reqs[r].found.quantity + ParseInt(reqs[r].quantity)
           hits == ByIdAndUser(reqs[r].found.id, reqs[r].userId)
       IN  \/ /\ faults < MaxFaults
              /\ faults' = faults + 1
              /\ reqs' = [reqs EXCEPT ![r] = Answer(@, 500)]
              /\ UNCHANGED inventory
           \/ /\ inventory' = [i \in 1..Len(inventory) |->
                                 IF i \in hits
                                 THEN [inventory[i] EXCEPT
                                         !.quantity = newQuantity,
                                         !.unit = reqs[r].unit,
                                         !.article_name = CleanName(ToLowerCase(reqs[r].article_name))]
                                 ELSE inventory[i]]
              /\ reqs' = [reqs EXCEPT ![r] = Answer(@, 201)]
              /\ UNCHANGED faults
    /\ UNCHANGED <<cache, now, model, calls, client, search, prevSearch, detail, prevDetail>>

\* createOrUpdateAlimento: await Inventory.create({...}); the schema is
\* validated: a rejected document goes to the catch of the route
PostCreate(r) ==
    /\ reqs[r].pc = "create"
    /\ LET doc == [id |-> NewId(r), user |-> reqs[r].userId,
                   article_name |-> CleanName(ToLowerCase(reqs[r].article_name)),
                   quantity |-> ParseInt(reqs[r].quantity), unit |-> reqs[r].unit]
           valid == /\ doc.article_name # <<>>
                    /\ doc.quantity >= MinQuantity
                    /\ doc.unit \in UnitEnum
       IN  \/ /\ faults < MaxFaults
              /\ faults' = faults + 1
              /\ reqs' = [reqs EXCEPT ![r] = Answer(@, 500)]
              /\ UNCHANGED inventory
           \/ /\ ~valid
              /\ reqs' = [reqs EXCEPT ![r] = Answer(@, 500)]
              /\ UNCHANGED <<inventory, faults>>
           \/ /\ valid
              /\ inventory' = Append(inventory, doc)
              /\ reqs' = [reqs EXCEPT ![r] = Answer(@, 201)]
              /\ UNCHANGED faults
    /\ UNCHANGED <<cache, now, model, calls, client, search, prevSearch, detail, prevDetail>>

\* the outcome of an update or delete by { _id: alimentoId, user: userId }:
\* a rejection (database error, malformed id) is answered 500, no match 404
Unmatched(r) ==
    \/ /\ faults < MaxFaults
       /\ faults' = faults + 1
       /\ reqs' = [reqs EXCEPT ![r] = Answer(@, 500)]
       /\ UNCHANGED inventory
    \/ /\ ~WellFormedAlimentoId(reqs[r].alimentoId)
       /\ reqs' = [reqs EXCEPT ![r] = Answer(@, 500)]
       /\ UNCHANGED <<inventory, faults>>
    \/ /\ WellFormedAlimentoId(reqs[r].alimentoId)
       /\ ByIdAndUser(reqs[r].alimentoId, reqs[r].userId) = {}
       /\ reqs' = [reqs EXCEPT ![r] = Answer(@, 404)]
       /\ UNCHANGED <<inventory, faults>>

\* sumarCantidadAlimento: updateOne(..., { $inc: { quantity } }), no
\* validators; the timestamps of the schema make every matched update a
\* modification
Sumar(r) ==
    /\ reqs[r].pc = "sumar"
    /\ \/ Unmatched(r)
       \/ /\ WellFormedAlimentoId(reqs[r].alimentoId)
          /\ \E i \in ByIdAndUser(reqs[r].alimentoId, reqs[r].userId) :
                inventory' = [inventory EXCEPT ![i].quantity = @ + ParseInt(reqs[r].quantity)]
          /\ reqs' = [reqs EXCEPT ![r] = Answer(@, 200)]
          /\ UNCHANGED faults
    /\ UNCHANGED <<cache, now, model, calls, client, search, prevSearch, detail, prevDetail>>

\* updateAlimento: updateOne(..., { $set: updateFields }) with the fields
\* that were given, no validators
Put(r) ==
    /\ reqs[r].pc = "put"
    /\ \/ Unmatched(r)
       \/ /\ WellFormedAlimentoId(reqs[r].alimentoId)
          /\ \E i \in ByIdAndUser(reqs[r].alimentoId, reqs[r].userId) :
                inventory' = [inventory EXCEPT ![i] =
                    [@ EXCEPT
                       !.article_name = IF Truthy(reqs[r].article_name)
                                        THEN Trim(ToLowerCase(reqs[r].article_name)) ELSE @,
                       !.quantity = IF TruthyNumber(reqs[r].quantity)
                                    THEN ParseInt(reqs[r].quantity) ELSE @,
                       !.unit = IF Truthy(reqs[r].unit) THEN reqs[r].unit ELSE @]]
          /\ reqs' = [reqs EXCEPT ![r] = Answer(@, 200)]
          /\ UNCHANGED faults
    /\ UNCHANGED <<cache, now, model, calls, client, search, prevSearch, detail, prevDetail>>

\* deleteAlimento: deleteOne({ _id: alimentoId, user: userId })
Delete(r) ==
    /\ reqs[r].pc = "delete"
    /\ \/ Unmatched(r)
       \/ /\ WellFormedAlimentoId(reqs[r].alimentoId)
          /\ \E i \in ByIdAndUser(reqs[r].alimentoId, reqs[r].userId) :
                inventory' = Without(i)
          /\ reqs' = [reqs EXCEPT ![r] = Answer(@, 200)]
          /\ UNCHANGED faults
    /\ UNCHANGED <<cache, now, model, calls, client, search, prevSearch, detail, prevDetail>>

\* ---- direct callers of translateText -------------------------------------
TextSamples ==
    {<<"a">>, ListPrompt(IngredientsToEnglish, Join(<<<<"a">>, <<"b">>>>, separador))}

\* caller c1 makes two calls, one after the other, caller c2 makes one call
\* at any time; client[c].returned counts the calls of c that have returned
\* and client[c].first is the first of them
CallsOf(c) == IF c = "c1" THEN 2 ELSE 1

TCall(c) ==
    /\ calls[c].pc = "idle"
    /\ client[c].returned < CallsOf(c)
    /\ \E text \in TextSamples : calls' = [calls EXCEPT ![c] = StartCall(text, "es", "en")]
    /\ UNCHANGED <<cache, now, faults, model, client, handlers>>

TReturn(c) ==
    /\ calls[c].pc = "done"
    /\ client[c].returned = 0
    /\ CallsOf(c) > 1
    /\ client' = [client EXCEPT ![c] = [returned |-> 1, first |-> calls[c]]]
    /\ calls' = [calls EXCEPT ![c] = IdleCall]
    /\ UNCHANGED <<cache, now, faults, model, handlers>>

InitTranslate ==
    /\ cache = <<>>
    /\ now = 0
    /\ faults = 0
    /\ model \in BOOLEAN
    /\ calls = [c \in CallIds |-> IdleCall]
    /\ client = [c \in Callers |-> [returned |-> 0, first |-> IdleCall]]
    /\ search = IdleSearch
    /\ prevSearch = IdleSearch
    /\ detail = IdleDetail
    /\ prevDetail = IdleDetail
    /\ inventory = <<>>
    /\ reqs = [r \in ReqIds |-> IdleReq]

NextTranslate ==
    \/ \E c \in Callers : TCall(c)
    \/ \E c \in Callers : TFindOne(c)
    \/ \E c \in Callers : TGenerate(c)
    \/ \E c \in Callers : TCreate(c)
    \/ \E c \in Callers : TReturn(c)
    \/ Tick
    \/ Purge

SpecTranslate == InitTranslate /\ [][NextTranslate]_vars

\* the search route, one request
InitSearch == InitTranslate

NextSearch ==
    \/ SStart
    \/ SAfterIngredients
    \/ SFindOne
    \/ SFetch
    \/ SCreate
    \/ SAssemble
    \/ \E c \in SearchCalls : TFindOne(c)
    \/ \E c \in SearchCalls : TGenerate(c)
    \/ \E c \in SearchCalls : TCreate(c)

SpecSearch == InitSearch /\ [][NextSearch]_vars

\* the detail route, one request
InitDetail == InitTranslate

NextDetail ==
    \/ DStart
    \/ DFindOne
    \/ DFetch
    \/ DCreate
    \/ DAssemble
    \/ \E c \in DetailCalls : TFindOne(c)
    \/ \E c \in DetailCalls : TGenerate(c)
    \/ \E c \in DetailCalls : TCreate(c)

SpecDetail == InitDetail /\ [][NextDetail]_vars

\* the user and inventory routes: two connections, one request each
InitInventory ==
    /\ cache = <<>>
    /\ now = 0
    /\ faults = 0
    /\ model = TRUE
    /\ calls = [c \in CallIds |-> IdleCall]
    /\ client = [c \in Callers |-> [returned |-> 0, first |-> IdleCall]]
    /\ search = IdleSearch
    /\ prevSearch = IdleSearch
    /\ detail = IdleDetail
    /\ prevDetail = IdleDetail
    /\ inventory \in InventorySamples
    /\ reqs = [r \in ReqIds |-> IdleReq]

NextInventory ==
    \/ \E r \in ReqIds : Arrive(r)
    \/ \E r \in ReqIds : CheckAuth(r)
    \/ \E r \in ReqIds : Login(r)
    \/ \E r \in ReqIds : Profile(r)
    \/ \E r \in ReqIds : Recipes(r)
    \/ \E r \in ReqIds : PostFind(r)
    \/ \E r \in ReqIds : PostUpdate(r)
    \/ \E r \in ReqIds : PostCreate(r)
    \/ \E r \in ReqIds : Sumar(r)
    \/ \E r \in ReqIds : Put(r)
    \/ \E r \in ReqIds : Delete(r)

SpecInventory == InitInventory /\ [][NextInventory]_vars

\* the user and inventory routes, one request: its handler runs to the
\* response, or to the point where the request goes on in the search route
Steps ==
    \/ CheckAuth("r1")
    \/ Login("r1")
    \/ Profile("r1")
    \/ Recipes("r1")
    \/ PostFind("r1")
    \/ PostUpdate("r1")
    \/ PostCreate("r1")
    \/ Sumar("r1")
    \/ Put("r1")
    \/ Delete("r1")

NextRoutes ==
    \/ Arrive("r1")
    \/ Steps

\* every awaited operation settles and the event loop runs the handler on
SpecRoutesFair == InitInventory /\ [][NextRoutes]_vars /\ WF_vars(Steps)

\* the detail route, two requests one after the other
NextDetail2 ==
    \/ NextDetail
    \/ DNextRequest

SpecDetail2 == InitDetail /\ [][NextDetail2]_vars

\* the search route, two requests one after the other, while the database
\* and the providers are up
InitSearch2 ==
    /\ cache = <<>>
    /\ now = 0
    /\ faults = MaxFaults
    /\ model = TRUE
    /\ calls = [c \in CallIds |-> IdleCall]
    /\ client = [c \in Callers |-> [returned |-> 0, first |-> IdleCall]]
    /\ search = IdleSearch
    /\ prevSearch = IdleSearch
    /\ detail = IdleDetail
    /\ prevDetail = IdleDetail
    /\ inventory = <<>>
    /\ reqs = [r \in ReqIds |-> IdleReq]

NextSearch2 ==
    \/ NextSearch
    \/ SNextRequest

SpecSearch2 == InitSearch2 /\ [][NextSearch2]_vars

\* the two recipe routes, one request at a time: a search request, or a
\* detail request and a second one after it
SearchRequest ==
    /\ detail.pc = "idle"
    /\ prevDetail.pc = "idle"
    /\ SStart

DetailRequest ==
    /\ search.pc = "idle"
    /\ DStart

InitRecipes == InitTranslate

NextRecipes ==
    \/ SearchRequest
    \/ SAfterIngredients
    \/ SFindOne
    \/ SFetch
    \/ SCreate
    \/ SAssemble
    \/ DetailRequest
    \/ DFindOne
    \/ DFetch
    \/ DCreate
    \/ DAssemble
    \/ DNextRequest
    \/ \E c \in SearchCalls \cup DetailCalls : TFindOne(c)
    \/ \E c \in SearchCalls \cup DetailCalls : TGenerate(c)
    \/ \E c \in SearchCalls \cup DetailCalls : TCreate(c)

SpecRecipes == InitRecipes /\ [][NextRecipes]_vars

\* ======================= translateText: claims ============================
CallKey(call) == TranslationCacheKey(call.src, call.tgt, call.text)

SameArgs(c1, c2) == c1.text = c2.text /\ c1.src = c2.src /\ c1.tgt = c2.tgt

\* the second call of caller c has returned and had the arguments of the first
TwoSameCalls(c) ==
    /\ client[c].returned = 1
    /\ calls[c].pc = "done"
    /\ SameArgs(client[c].first, calls[c])

Finished == {calls[c] : c \in {d \in CallIds : calls[d].pc = "done"}}
            \cup {client[c].first : c \in {d \in Callers : client[d].returned = 1}}

\* C5: two concurrent calls that both miss on the same key both compute and
\* both write, and neither loses its computed result because of the other's
\* write: a call that obtained a translation and met no database outage
\* returns that translation.
C5_ConcurrentMissHarmless ==
    \A call \in Finished :
        (call.translatedText # Null /\ call.err # "db")
        => call.result = call.translatedText

\* C6: a lookup made while the age of the entry for its key is below the TTL
\* returns the entry, and a lookup made once the age exceeds the TTL is a
\* miss that goes on to recompute.
C6_EntryReadableExactlyWithinTTL ==
    [][\A c \in CallIds :
          (calls[c].pc = "findOne" /\ calls'[c].pc # "findOne" /\ calls'[c].err # "db")
          => \A e \in FindOne(CallKey(calls[c])) :
                /\ now - e.createdAt < TTL
                     => (calls'[c].err = "hit" /\ calls'[c].result = e.data)
                /\ now - e.createdAt > TTL
                     => calls'[c].pc = "generate"]_vars

\* C13: when the provider call succeeded and storing the result fails, the
\* call still returns the translated text it obtained.
C13_StoreFailureStillReturns ==
    \A call \in Finished :
        (call.translatedText # Null /\ call.err = "db")
        => call.result = call.translatedText

\* the call met a failure: no provider client, a rejected database or
\* provider call, or an empty answer of the provider
Failed(call) ==
    \/ call.err \in {"nomodel", "db", "provider", "duplicate"}
    \/ call.translatedText = <<>>

\* C14: on any failure translateText returns null.
C14_FailureReturnsNull ==
    \A call \in Finished : Failed(call) => call.result = Null

\* the documents with the key that have not reached the TTL
LiveEntries(key) ==
    {i \in 1..Len(cache) : cache[i].cacheKey = key /\ now - cache[i].createdAt < TTL}

C12_CacheFailureIsMiss ==
    [][(search.pc \in {"findOne", "create"} /\ search'.pc = "done")
          => search'.status = 200]_vars

\* the handler has taken the result of the ingredient translation
IngredientsTranslated ==
    /\ calls["ing"].pc = "done"
    /\ search.pc \notin {"idle", "awaitIng"}

\* C1: the sequence used after a batch translation has as many elements as
\* the batch: the English ingredient names are as many as the inventory
\* names, whatever number of pieces the provider's answer splits into.
C1_BatchKeepsLength ==
    (IngredientsTranslated /\ Truthy(search.translatedIngredientsString))
    => Len(EnglishIngredients(search.translatedIngredientsString))
         = Len(search.spanishIngredients)

\* C2: when the answer splits into k pieces, element i of the translated
\* batch is the trimmed piece i for i < k and the original item i from k on.
C2_PiecesThenOriginals ==
    (IngredientsTranslated /\ Truthy(search.translatedIngredientsString))
    => LET pieces == Split(search.translatedIngredientsString, separador)
       IN  EnglishPieces(search.translatedIngredientsString)
             = [i \in 1..Len(search.spanishIngredients) |->
                  IF i <= Len(pieces) THEN Trim(pieces[i])
                  ELSE search.spanishIngredients[i]]

\* C3: when the translation of the inventory names returns null, the request
\* is not failed for it: the search goes on with the original names.
C3_SearchSurvivesFailedTranslation ==
    (IngredientsTranslated /\ calls["ing"].result = Null)
    => search.details # TranslationFailed

\* the search entry of the running request, as the cache holds it
StoredResults == FindOne(SearchCacheKey(search.translatedIngredientsString, search.query))

\* the request was answered with the translated results
SearchAnswered ==
    /\ search.pc = "done"
    /\ search.status = 200
    /\ search.spanishIngredients # <<>>

\* b is a with nothing but the text field of `changed` rewritten
SameBut(a, b, changed) ==
    /\ DOMAIN b = DOMAIN a
    /\ \A f \in DOMAIN a \ changed : b[f] = a[f]

\* the missed ingredients of a result keep their number, order and fields
SameMissed(a, b) ==
    /\ Len(b.missedIngredients) = Len(a.missedIngredients)
    /\ \A j \in 1..Len(a.missedIngredients) :
          SameBut(a.missedIngredients[j], b.missedIngredients[j], {"original"})

HasKey(req) ==
    /\ req.pc \notin {"idle", "awaitIng"}
    /\ Truthy(req.translatedIngredientsString)

KeyOf(req) == SearchCacheKey(req.translatedIngredientsString, req.query)

Occurrences(x, arr) == Cardinality({i \in 1..Len(arr) : arr[i] = x})

IsPermutation(a, b) ==
    /\ Len(a) = Len(b)
    /\ \A i \in 1..Len(a) : Occurrences(a[i], a) = Occurrences(a[i], b)

Elements(arr) == {arr[i] : i \in 1..Len(arr)}

\* C9: two searches whose translated names are the same names in another
\* order, with the same filters, build the same key, and the second is
\* served from the entry the first stored: no provider call, the same data.
C9_SameNamesAnyOrderSameEntry ==
    ( /\ HasKey(prevSearch) /\ HasKey(search)
      /\ prevSearch.query = search.query
      /\ IsPermutation(EnglishPieces(prevSearch.translatedIngredientsString),
                       EnglishPieces(search.translatedIngredientsString)) )
    => /\ KeyOf(search) = KeyOf(prevSearch)
       /\ (prevSearch.stored /\ search.pc # "findOne")
            => /\ search.hit
               /\ search.fetches = 0
               /\ search.data = prevSearch.data

\* the second search had the names of the first in another order and was
\* answered from the first one's entry
C9_Witness ==
    /\ prevSearch.stored
    /\ search.pc = "done"
    /\ search.hit
    /\ search.status = 200
    /\ search.body # <<>>
    /\ EnglishPieces(prevSearch.translatedIngredientsString)
         # EnglishPieces(search.translatedIngredientsString)
    /\ IsPermutation(EnglishPieces(prevSearch.translatedIngredientsString),
                     EnglishPieces(search.translatedIngredientsString))

\* C10: the translated names are deduplicated before the key is built: two
\* searches whose translated names are equal as sets, with the same filters,
\* build the same search cache key.
C10_RepeatedNamesSameKey ==
    ( /\ HasKey(prevSearch) /\ HasKey(search)
      /\ prevSearch.query = search.query
      /\ Elements(EnglishPieces(prevSearch.translatedIngredientsString))
           = Elements(EnglishPieces(search.translatedIngredientsString)) )
    => KeyOf(search) = KeyOf(prevSearch)

\* C17: when the recipe provider refuses a search call with a status S, the
\* request ends with an error response that carries S.
C17_ProviderStatusSurfaced ==
    search.details = SearchApiFailed => search.status \in ProviderStatuses

\* the response was built from the results and the two translations
SearchAssembled ==
    /\ search.pc = "done"
    /\ search.status = 200
    /\ search.data # <<>>

\* the number of missed ingredients of the results before result r
RECURSIVE MissedBefore(_, _)
MissedBefore(data, r) ==
    IF r <= 1 THEN 0
    ELSE MissedBefore(data, r - 1)
         + (IF HasMissed(data[r - 1]) THEN Len(data[r - 1].missedIngredients) ELSE 0)

\* the trimmed pieces of the translated missing-ingredient batch
MissingPieces ==
    IF calls["missing"].result \in {Null, <<>>} THEN <<>>
    ELSE LET raw == Split(calls["missing"].result, separador)
         IN  [p \in 1..Len(raw) |-> Trim(raw[p])]

\* C19: the j-th missing ingredient of result r receives the piece of the
\* translated batch at the position (number of missed ingredients of the
\* results before r) + j, and keeps its original text when the batch has
\* no text at that position.
C19_RunningIndex ==
    SearchAssembled
    => \A r \in 1..Len(search.data) :
          HasMissed(search.data[r])
          => \A j \in 1..Len(search.data[r].missedIngredients) :
                LET p == MissedBefore(search.data, r) + j
                IN  search.body[r].missedIngredients[j].original
                      = IF p <= Len(MissingPieces) /\ MissingPieces[p] # <<>>
                        THEN MissingPieces[p]
                        ELSE search.data[r].missedIngredients[j].original

\* the only missed ingredient of the second result was answered with the
\* third piece of the batch, the two of the first result with the first two
C19_Witness ==
    /\ SearchAssembled
    /\ Len(search.data) = 2
    /\ MissedBefore(search.data, 2) = 2
    /\ Len(MissingPieces) = 3
    /\ search.body[1].missedIngredients[2].original = MissingPieces[2]
    /\ search.body[2].missedIngredients[1].original = MissingPieces[3]
    /\ MissingPieces[3] # search.data[2].missedIngredients[1].original
    /\ MissingPieces[3] # MissingPieces[2]

\* no result has a missed ingredient
NoMissingAtAll(data) ==
    \A r \in 1..Len(data) : ~HasMissed(data[r]) \/ data[r].missedIngredients = <<>>

\* C20: when no result of the search has a missing ingredient, translateText
\* is not called for the missing-ingredient batch (no cache lookup, no
\* provider call); only the titles batch is translated.
C20_NoMissingNoCall ==
    ( /\ search.pc = "awaitTranslations" \/ SearchAssembled
      /\ search.data # <<>>
      /\ NoMissingAtAll(search.data) )
    => /\ calls["missing"] = IdleCall
       /\ calls["titles"].pc # "idle"

\* results without missed ingredients were answered with their titles
\* translated by the provider and no call for the other batch
C20_Witness ==
    /\ SearchAssembled
    /\ NoMissingAtAll(search.data)
    /\ calls["missing"] = IdleCall
    /\ calls["titles"].providerCalls = 1
    /\ \A r \in 1..Len(search.data) : search.body[r].title = TrStr(search.data[r].title)

\* the filters of a query that are in force: a filter that is given, and for
\* the diet one that is not "none"
FilterNames == {"diet", "maxCalories", "maxCarbs", "maxProtein", "maxSugar"}

ActiveFilters(q) ==
    {<<f, q[f]>> : f \in {g \in FilterNames : Truthy(q[g]) /\ ~(g = "diet" /\ q[g] = <<"none">>)}}

\* the documents of the cache that hold search results
SearchEntries == {i \in 1..Len(cache) : cache[i].cacheKey[1] = "spoonacular:search:"}

\* the two requests have the same translated names and other filters in force
SameNamesOtherFilters ==
    /\ HasKey(prevSearch) /\ HasKey(search)
    /\ EnglishPieces(prevSearch.translatedIngredientsString)
         = EnglishPieces(search.translatedIngredientsString)
    /\ ActiveFilters(prevSearch.query) # ActiveFilters(search.query)

\* C11: two searches with identical ingredients and different filters in
\* force build different search cache keys and use separate entries: the
\* second is never served from the entry of the first, it asks the provider
\* and stores an entry of its own.
C11_OtherFiltersOtherEntry ==
    SameNamesOtherFilters
    => /\ KeyOf(search) # KeyOf(prevSearch)
       /\ search.pc \notin {"findOne", "fetch"}
            => (~search.hit /\ search.fetches = 1)
       /\ (prevSearch.stored /\ search.stored) => Cardinality(SearchEntries) = 2

\* both searches were answered with results, each from its own entry, the
\* filters differing only in which maximum carries the value
C11_Witness ==
    /\ SameNamesOtherFilters
    /\ prevSearch.stored /\ search.stored
    /\ search.pc = "done" /\ search.status = 200 /\ search.body # <<>>
    /\ prevSearch.body # <<>>
    /\ prevSearch.query.maxCalories = <<"500">>
    /\ search.query.maxCarbs = <<"500">>
    /\ Cardinality(SearchEntries) = 2

\* ======================= detail route: claims =============================
\* the detail entry of the running request, as the cache holds it
StoredDetail == FindOne(DetailsCacheKey(detail.recipeId))

DetailAnswered == detail.pc = "done" /\ detail.status = 200

\* C7: the detail response differs from the stored record only in title,
\* summary, instructions and extendedIngredients[i].original; every other
\* field of the record and of each ingredient is the same, and
\* extendedIngredients keeps its length and order.
C7_DetailFrame ==
    DetailAnswered
    => \A e \in StoredDetail :
          /\ SameBut(e.data, detail.body,
                     {"title", "summary", "instructions", "extendedIngredients"})
          /\ Len(detail.body.extendedIngredients) = Len(e.data.extendedIngredients)
          /\ \A i \in 1..Len(e.data.extendedIngredients) :
                SameBut(e.data.extendedIngredients[i],
                        detail.body.extendedIngredients[i], {"original"})

\* a record was answered with its title and an ingredient string translated
C7_Witness ==
    /\ DetailAnswered
    /\ StoredDetail # {}
    /\ Len(detail.data.extendedIngredients) > 1
    /\ detail.body.title # detail.data.title
    /\ detail.body.extendedIngredients[2].original
         # detail.data.extendedIngredients[2].original
    /\ detail.body.image = detail.data.image

\* both detail requests were answered and asked for the same recipe
TwoSameDetails ==
    /\ prevDetail.pc = "done"
    /\ detail.pc = "done"
    /\ detail.recipeId = prevDetail.recipeId

DetailAssembled ==
    /\ detail.pc = "done"
    /\ \A c \in DetailCalls : calls[c].pc = "done"

\* the translation is not available: null, or no text at all
Unavailable(c) == calls[c].result \in {Null, <<>>}

IssuedBySearch(req) ==
    IF AllMissingIngredients(req.data) # <<>> THEN {"titles", "missing"} ELSE {"titles"}

IssuedByDetail == {"title", "summary", "instructions", "ingredients"}

\* C21: in the search flow (titles batch, missing-ingredient batch) and in
\* the detail flow (title, summary, instructions, ingredient batch) the
\* translation sub-tasks are issued together, in the step that reaches the
\* wait; the wait is left only by the assembled response, and only when
\* every issued sub-task has returned (with a translation or with the
\* unavailable value), whatever the order of their returns; no sub-task
\* that was issued is withdrawn before it returns.
C21_AssembledAfterAll ==
    [][ /\ (search.pc # "awaitTranslations" /\ search'.pc = "awaitTranslations")
           => /\ \A c \in IssuedBySearch(search') : calls[c].pc = "idle" /\ calls'[c].pc # "idle"
              /\ \A c \in {"titles", "missing"} \ IssuedBySearch(search') : calls'[c].pc = "idle"
        /\ (search.pc = "awaitTranslations" /\ search'.pc # "awaitTranslations")
           => /\ search'.pc = "done"
              /\ search'.status = 200
              /\ \A c \in IssuedBySearch(search) : calls[c].pc = "done" /\ calls'[c] = calls[c]
        /\ (detail.pc # "awaitTranslations" /\ detail'.pc = "awaitTranslations")
           => \A c \in IssuedByDetail : calls[c].pc = "idle" /\ calls'[c].pc # "idle"
        /\ (detail.pc = "awaitTranslations" /\ detail'.pc # "awaitTranslations")
           => /\ detail'.pc = "done"
              /\ detail'.status = 200
              /\ \A c \in IssuedByDetail : calls[c].pc = "done" /\ calls'[c] = calls[c]
        /\ \A c \in SearchCalls \cup DetailCalls :
              calls[c].pc \notin {"idle", "done"} => calls'[c].pc # "idle" ]_vars

\* a detail response assembled from one unavailable and three translated
\* sub-tasks
C21_Witness ==
    /\ detail.pc = "done"
    /\ detail.status = 200
    /\ \A c \in IssuedByDetail : calls[c].pc = "done"
    /\ calls["summary"].result = Null
    /\ \A c \in IssuedByDetail \ {"summary"} : Truthy(calls[c].result)

\* the documents under a key
Under(docs, key) == {i \in 1..Len(docs) : docs[i].cacheKey = key}

\* the first detail request ended at its provider call: the provider
\* refused or the call was rejected
ProviderFailedBefore ==
    /\ prevDetail.pc = "done"
    /\ prevDetail.fetches = 1
    /\ prevDetail.data = NoRecipe
    /\ prevDetail.status \in ProviderStatuses \cup {500}

\* C26: a recipe-provider call that fails (non-success status or network
\* error) during search or details ends the request without a cache entry
\* being written for the request's key; so the lookup of the next identical
\* request, when the database answers it, misses, and the provider is
\* called again instead of the failure being replayed.
C26_FailureNotCached ==
    [][ /\ (search.pc = "fetch" /\ search'.pc = "done")
           => /\ search'.fetches = search.fetches + 1
              /\ search'.status = 500
              /\ cache' = cache
              /\ Under(cache', SearchCacheKey(search.translatedIngredientsString, search.query)) = {}
        /\ (detail.pc = "fetch" /\ detail'.pc = "done")
           => /\ detail'.fetches = detail.fetches + 1
              /\ detail'.status \in ProviderStatuses \cup {500}
              /\ cache' = cache
              /\ Under(cache', DetailsCacheKey(detail.recipeId)) = {}
        /\ (search'.fetches = 1 /\ ~search'.stored)
           => Under(cache', SearchCacheKey(search'.translatedIngredientsString, search'.query)) = {}
        /\ (detail'.fetches = 1 /\ ~detail'.stored)
           => Under(cache', DetailsCacheKey(detail'.recipeId)) = {}
        /\ ( /\ ProviderFailedBefore
             /\ detail.recipeId = prevDetail.recipeId
             /\ detail.pc = "findOne"
             /\ detail' # detail )
           => \/ detail'.pc = "fetch"
              \/ detail'.pc = "done" /\ detail'.status = 500 /\ faults' = faults + 1
        /\ ( /\ ProviderFailedBefore
             /\ detail.recipeId = prevDetail.recipeId
             /\ detail.pc = "fetch"
             /\ detail' # detail )
           => detail'.fetches = 1 ]_vars

\* the provider refused the first request with 402; the second request for
\* the same recipe called the provider again, was answered and stored
C26_Witness ==
    /\ ProviderFailedBefore
    /\ prevDetail.status = 402
    /\ detail.recipeId = prevDetail.recipeId
    /\ detail.fetches = 1
    /\ ~detail.hit
    /\ detail.stored
    /\ Under(cache, DetailsCacheKey(detail.recipeId)) # {}

\* ======================= the cache store: claims ==========================
\* the positions of the documents with a key that have not expired
LiveAt(key) ==
    {i \in 1..Len(cache) : cache[i].cacheKey = key /\ now - cache[i].createdAt < TTL}

\* C22: in every reachable state of the cache store, after any interleaving
\* of requests and of expirations, there is at most one live entry per
\* cache key (and at most one entry at all, live or awaiting its removal).
C22_OneLiveEntryPerKey ==
    /\ \A i \in 1..Len(cache) : Cardinality(LiveAt(cache[i].cacheKey)) <= 1
    /\ \A i, j \in 1..Len(cache) : cache[i].cacheKey = cache[j].cacheKey => i = j

\* two concurrent calls missed on one key and both computed; the write of
\* one was refused by the index and the entry of the other is the one entry
C22_Witness ==
    /\ calls["c1"].pc = "done"
    /\ calls["c2"].pc = "done"
    /\ calls["c1"].providerCalls = 1
    /\ calls["c2"].providerCalls = 1
    /\ calls["c2"].err = "duplicate"
    /\ LiveAt(TranslationCacheKey(calls["c2"].src, calls["c2"].tgt, calls["c2"].text)) # {}

\* ======================= users and inventory: claims ======================
\* the request of connection r is in the handler of the recipe search, about
\* to read the inventory, and the user has no document
EmptyInventorySearch(r) ==
    /\ reqs[r].pc = "recipes"
    /\ NamesIn(inventory, reqs[r].userId) = <<>>

\* C23: a recipe search for a user whose inventory is empty responds with
\* status 200 and an empty array (500 when the read of the inventory fails),
\* and in either case without any translation call, any recipe-provider call
\* or any cache write.
C23_EmptyInventoryNoCalls ==
    [][\A r \in ReqIds :
          (EmptyInventorySearch(r) /\ reqs'[r] # reqs[r])
          => /\ reqs'[r].pc = "done"
             /\ reqs'[r].responses = 1
             /\ \/ reqs'[r].status = 200 /\ search'.status = 200 /\ search'.body = <<>>
                \/ reqs'[r].status = 500 /\ faults' = faults + 1
             /\ search'.fetches = 0
             /\ calls' = calls
             /\ cache' = cache]_vars

\* the search of user u1, who has no document, was answered 200 with []
C23_Witness ==
    /\ reqs["r1"].op = "recipes"
    /\ reqs["r1"].userId = "u1"
    /\ NamesIn(inventory, "u1") = <<>>
    /\ reqs["r1"].pc = "done"
    /\ reqs["r1"].status = 200
    /\ search.pc = "done"
    /\ search.body = <<>>
    /\ \A c \in CallIds : calls[c].pc = "idle"
    /\ cache = <<>>

\* no other request has arrived
Alone(r) == \A o \in ReqIds \ {r} : reqs[o].pc = "idle"

\* the documents of a user with a name
Records(docs, userId, name) ==
    {i \in 1..Len(docs) : docs[i].user = userId /\ docs[i].article_name = name}

\* the name under which the route and the service store a posted name
PostedName(req) == Trim(ToLowerCase(req.article_name))

\* C24 (as stated): POST /api/inventario for a user who already has an item
\* with the same lower-cased, trimmed name adds the posted quantity to the
\* existing record (new quantity = old quantity + posted quantity) and
\* creates no second record; when no such item exists exactly one record is
\* created with the posted quantity. Quantities are held in halves, so the
\* sums are written doubled.
C24_PostAddsPostedQuantity ==
    [][\A r \in ReqIds :
          ( /\ Alone(r)
            /\ reqs[r].pc \in {"update", "create"}
            /\ reqs'[r].status = 201 )
          => LET before == Records(inventory, reqs[r].userId, PostedName(reqs[r]))
                 after  == Records(inventory', reqs[r].userId, PostedName(reqs[r]))
             IN  /\ Cardinality(after) = 1
                 /\ Len(inventory') = Len(inventory) + (IF before = {} THEN 1 ELSE 0)
                 /\ \A j \in after :
                       2 * inventory'[j].quantity =
                          (IF before = {} THEN 0 ELSE 2 * inventory[j].quantity)
                          + reqs[r].quantity[1]]_vars

\* the positions of a request inside a handler behind checkAuth
HandlerPcs == {"profile", "recipes", "search", "find", "update", "create", "sumar", "put", "delete"}

\* the stored data and the two providers' sides
Stored == <<inventory, cache, calls, search>>

OthersItem(req) ==
    \E i \in 1..Len(inventory) :
        inventory[i].id = req.alimentoId /\ inventory[i].user # req.userId

\* C27: updateAlimento, sumarCantidadAlimento and deleteAlimento called with
\* user U and an item id owned by another user change and remove nothing:
\* every inventory record is unchanged and the route answers 404 (the
\* function returned false), or 500 when the database operation itself
\* failed.
C27_OthersItemUntouched ==
    [][\A r \in ReqIds :
          ( /\ reqs[r].pc \in {"sumar", "put", "delete"}
            /\ OthersItem(reqs[r])
            /\ reqs'[r] # reqs[r] )
          => /\ inventory' = inventory
             /\ reqs'[r].pc = "done"
             /\ reqs'[r].responses = 1
             /\ \/ reqs'[r].status = 404
                \/ reqs'[r].status = 500 /\ faults' = faults + 1]_vars

\* user u1 asked to delete the document of user u2 and was answered 404;
\* the document is there
C27_Witness ==
    /\ reqs["r1"].op = "delete"
    /\ reqs["r1"].userId = "u1"
    /\ reqs["r1"].alimentoId = Milk.id
    /\ reqs["r1"].status = 404
    /\ \E i \in 1..Len(inventory) : inventory[i] = Milk

\* C28 (as stated): in every reachable state, after any sequence of POST,
\* PATCH .../sumar and PUT requests, every stored inventory record has
\* quantity >= 0 and a unit in {gramos, kg, unidades, litros, ml}, as the
\* inventory schema declares.
C28_SchemaHolds ==
    \A i \in 1..Len(inventory) :
        /\ inventory[i].quantity >= MinQuantity
        /\ inventory[i].unit \in UnitEnum

\* both connections sent a POST /api/inventario of user u with a whole
\* quantity and both were answered 201
BothPosted(u) ==
    \A r \in ReqIds :
        /\ reqs[r].op = "post"
        /\ reqs[r].userId = u
        /\ reqs[r].status = 201
        /\ reqs[r].quantity[1] % 2 = 0

\* the quantity user u had of the item before the requests: the documents
\* of before keep their _id
PriorQuantity(u) ==
    IF u = Flour.user /\ \E i \in 1..Len(inventory) : inventory[i].id = Flour.id THEN Flour.quantity
    ELSE IF u = Milk.user THEN Milk.quantity
    ELSE 0

\* C29 (as stated): concurrent POST /api/inventario requests of one user for
\* the same item name have the effect of some serial order of those
\* requests: afterwards there is exactly one record for that (user, name)
\* and its quantity equals the prior quantity plus the sum of all posted
\* quantities (no lost update, no duplicate record).
C29_ConcurrentPostsSerial ==
    \A u \in Users :
        BothPosted(u)
        => LET recs == Records(inventory, u, PostedName(reqs["r1"]))
           IN  /\ PostedName(reqs["r1"]) = PostedName(reqs["r2"])
               /\ Cardinality(recs) = 1
               /\ \A i \in recs :
                     2 * inventory[i].quantity =
                        2 * PriorQuantity(u) + reqs["r1"].quantity[1] + reqs["r2"].quantity[1]

\* the response of the request has been sent by its handler, or the request
\* has gone on into the search route, which sends it
Answered(r) ==
    \/ reqs[r].responses = 1
    \/ reqs[r].pc = "search"

\* C30 (as stated): every request accepted by any API route eventually
\* receives exactly one HTTP response, including when a service, database,
\* translation or provider call made by the handler fails; no handler leaves
\* a request unanswered or responds twice.
C30_EveryRequestAnswered ==
    /\ \A r \in ReqIds : (reqs[r].pc # "idle") ~> Answered(r)
    /\ [](\A r \in ReqIds : reqs[r].responses <= 1)

====
